---- MODULE Spec2Model ----
(***************************************************************************)
(* Model of platform_master (src/main.py): AABB collision functions, the   *)
(* PhysicsObject / Platform / Player classes, the PhysicsEngine and the    *)
(* main loop.  All coordinates and velocities the program handles are      *)
(* integral (ints, or floats holding whole numbers far below 2^53), so     *)
(* they are modelled as integers; comparisons against 0.1 are scaled by 10.*)
(* Python's 0-based tuple index b[k] is the 1-based b[k+1] here.           *)
(***************************************************************************)
EXTENDS Integers, Sequences, FiniteSets, TLC

VARIABLES
    objects,     \* PhysicsEngine.objects: the registered bodies, in order
    pool,        \* bodies constructed but not yet registered
    pc,          \* position of the main program
    i,           \* index of the for-loop in update() / draw()
    d,           \* index into the list of DYNAMIC bodies in _collision_update
    j,           \* index of the inner for-loop in _collision_update
    keys,        \* pygame.key.get_pressed() snapshot of the current frame
    run,         \* the main loop's run flag
    frames,      \* number of completed frames
    registered,  \* history: ids of the bodies in the order of register_obj calls
    log,         \* history: the calls made during the current frame
    frameStart,  \* history: objects when the current update() started
    passStart,   \* history: objects when the current collision pass started
    bounds1,     \* first argument of the AABB functions under test
    bounds2,     \* second argument of the AABB functions under test
    out          \* results returned by the AABB functions under test

vars == <<objects, pool, pc, i, d, j, keys, run, frames, registered, log,
          frameStart, passStart, bounds1, bounds2, out>>

aabbVars == <<bounds1, bounds2, out>>

----------------------------------------------------------------------------
(* Bounds of the model *)

MaxCoord == 4      \* AABB functions are tried on all bounds in 0..MaxCoord
MaxFrames == 3     \* frames of the main loop run in the small worlds

----------------------------------------------------------------------------
(* class AABBCollision *)

abs(n) == IF n < 0 THEN -n ELSE n

\* variant: the second comparison strict
IsColliding1dStrict(x1, x2) == x1[1] <= x2[2] /\ x2[1] < x1[2]

_AABB_is_colliding_1d(x1, x2) == x1[1] <= x2[2] /\ x2[1] <= x1[2]

\* variant: a tie between the two pushes takes the low side
Vector1dTieLow(x1, x2) ==
    IF abs(x1[2] - x2[1]) <= abs(x2[2] - x1[1])
    THEN x2[1] - x1[2]
    ELSE x2[2] - x1[1]

_AABB_vector_1d(x1, x2) ==
    IF abs(x1[2] - x2[1]) < abs(x2[2] - x1[1])
    THEN x2[1] - x1[2]
    ELSE x2[2] - x1[1]

\* variant: open intervals, touching does not count
IsCollidingOpen(b1, b2) ==
    /\ b1[1][1] < b2[1][2] /\ b2[1][1] < b1[1][2]
    /\ b1[2][1] < b2[2][2] /\ b2[2][1] < b1[2][2]

AABB_is_colliding(b1, b2) ==
    _AABB_is_colliding_1d(b1[1], b2[1]) /\ _AABB_is_colliding_1d(b1[2], b2[2])

\* the two per-axis pushes of lines 20-21, without the test of line 19
CompactPushes(b1, b2) ==
    <<IF abs(b1[1][2] - b2[1][1]) < abs(b2[1][2] - b1[1][1])
      THEN b2[1][1] - b1[1][2] ELSE b2[1][2] - b1[1][1],
      IF abs(b1[2][2] - b2[2][1]) < abs(b2[2][2] - b1[2][1])
      THEN b2[2][1] - b1[2][2] ELSE b2[2][2] - b1[2][1]>>

\* variant: a tie between the axes keeps x instead of y
CompactTieKeepsX(b1, b2) ==
    IF (b1[1][1] <= b2[1][2] /\ b2[1][1] <= b1[1][2])
       /\ (b1[2][1] <= b2[2][2] /\ b2[2][1] <= b1[2][2])
    THEN LET v == CompactPushes(b1, b2)
         IN  IF abs(v[1]) <= abs(v[2]) THEN <<v[1], 0>> ELSE <<0, v[2]>>
    ELSE <<0, 0>>

\* variant: the longer of the two pushes is kept
CompactLongestAxis(b1, b2) ==
    IF (b1[1][1] <= b2[1][2] /\ b2[1][1] <= b1[1][2])
       /\ (b1[2][1] <= b2[2][2] /\ b2[2][1] <= b1[2][2])
    THEN LET v == CompactPushes(b1, b2)
         IN  IF abs(v[1]) > abs(v[2]) THEN <<v[1], 0>> ELSE <<0, v[2]>>
    ELSE <<0, 0>>

\* variant: the collision test looks at the x axis only
CompactXTestOnly(b1, b2) ==
    IF b1[1][1] <= b2[1][2] /\ b2[1][1] <= b1[1][2]
    THEN LET v == CompactPushes(b1, b2)
         IN  IF abs(v[1]) < abs(v[2]) THEN <<v[1], 0>> ELSE <<0, v[2]>>
    ELSE <<0, 0>>

AABB_vector_compact(b1, b2) ==
    IF (b1[1][1] <= b2[1][2] /\ b2[1][1] <= b1[1][2])
       /\ (b1[2][1] <= b2[2][2] /\ b2[2][1] <= b1[2][2])
    THEN LET x == IF abs(b1[1][2] - b2[1][1]) < abs(b2[1][2] - b1[1][1])
                  THEN b2[1][1] - b1[1][2]
                  ELSE b2[1][2] - b1[1][1]
             y == IF abs(b1[2][2] - b2[2][1]) < abs(b2[2][2] - b1[2][1])
                  THEN b2[2][1] - b1[2][2]
                  ELSE b2[2][2] - b1[2][1]
         IN  IF abs(x) < abs(y) THEN <<x, 0>> ELSE <<0, y>>
    ELSE <<0, 0>>

AABB_vector(b1, b2) ==
    LET res == IF AABB_is_colliding(b1, b2)
               THEN <<_AABB_vector_1d(b1[1], b2[1]), _AABB_vector_1d(b1[2], b2[2])>>
               ELSE <<0, 0>>
    IN  IF abs(res[1]) < abs(res[2]) THEN <<res[1], 0>> ELSE <<0, res[2]>>

----------------------------------------------------------------------------
(* class PhysicsObject and its subclasses.  A body is a record; Platform   *)
(* has no velocity attribute in the source and carries <<0, 0>> here only  *)
(* so that all bodies have the same fields.  tags is used by the source    *)
(* only through "in", so it is a set.                                      *)

PhysicsObject(id, x, y, width, height, tags) ==
    [id |-> id, x |-> x, y |-> y, width |-> width, height |-> height,
     tags |-> tags, kind |-> "PhysicsObject", velocity |-> <<0, 0>>]

Platform(id, x, y, width, height) ==
    [PhysicsObject(id, x, y, width, height, {"STATIC"}) EXCEPT !.kind = "Platform"]

Player(id, x, y, width, height) ==
    [PhysicsObject(id, x, y, width, height, {"DYNAMIC", "PLAYER"})
        EXCEPT !.kind = "Player", !.velocity = <<0, 0>>]

bounds(obj) == <<<<obj.x, obj.x + obj.width>>, <<obj.y, obj.y + obj.height>>>>

\* variant: only the x coordinate is advanced
MoveXOnly(obj, x, y) == [obj EXCEPT !.x = @ + x]

\* variant: the y coordinate is advanced by x
MoveBothByX(obj, x, y) == [obj EXCEPT !.x = @ + x, !.y = @ + x]

move(obj, x, y) == [obj EXCEPT !.x = @ + x, !.y = @ + y]

(* Player.update, one operator per block of the method.  k is the result   *)
(* of pygame.key.get_pressed(): [space, left, right |-> BOOLEAN].          *)

\* variant: the impulse is already allowed when the player has nearly
\* stopped rising
JumpNearApex(obj, k) ==
    IF k.space /\ obj.velocity[2] <= 3
    THEN [obj EXCEPT !.velocity[2] = (IF @ < 0 THEN 0 ELSE @) + 30]
    ELSE obj

\* variant: the impulse needs a falling player
JumpOnlyFalling(obj, k) ==
    IF k.space /\ obj.velocity[2] < 0
    THEN [obj EXCEPT !.velocity[2] = (IF @ < 0 THEN 0 ELSE @) + 30]
    ELSE obj

Player_jump(obj, k) ==
    IF k.space /\ obj.velocity[2] * 10 < 1
    THEN [obj EXCEPT !.velocity[2] = (IF @ < 0 THEN 0 ELSE @) + 30]
    ELSE obj

\* variant: the guards are one step wider
HorizontalWideGuards(obj, k) ==
    LET o1 == IF k.left /\ obj.velocity[1] > -13
              THEN [obj EXCEPT !.velocity[1] = @ - 3] ELSE obj
    IN  IF k.right /\ o1.velocity[1] < 13
        THEN [o1 EXCEPT !.velocity[1] = @ + 3] ELSE o1

Player_horizontal(obj, k) ==
    LET o1 == IF k.left /\ obj.velocity[1] > -10
              THEN [obj EXCEPT !.velocity[1] = @ - 3] ELSE obj
    IN  IF k.right /\ o1.velocity[1] < 10
        THEN [o1 EXCEPT !.velocity[1] = @ + 3] ELSE o1

\* variant: gravity still acts at -15
GravityPastTerminal(obj) ==
    IF obj.velocity[2] >= -15
    THEN [obj EXCEPT !.velocity[2] = @ - 3]
    ELSE obj

\* variant: gravity stops one step early
GravityStopsEarly(obj) ==
    IF obj.velocity[2] > -12
    THEN [obj EXCEPT !.velocity[2] = @ - 3]
    ELSE obj

\* variant: no gravity while the player rises
GravityOnlyWhenFalling(obj) ==
    IF obj.velocity[2] > -15 /\ obj.velocity[2] <= 0
    THEN [obj EXCEPT !.velocity[2] = @ - 3]
    ELSE obj

Player_gravity(obj) ==
    LET t == 1
    IN  IF obj.velocity[2] > -15
        THEN [obj EXCEPT !.velocity[2] = @ - 3 * t]
        ELSE obj

Player_integrate(obj) ==
    [obj EXCEPT !.x = @ + obj.velocity[1], !.y = @ - obj.velocity[2]]

Player_update(obj, k) ==
    Player_integrate(Player_gravity(Player_horizontal(Player_jump(obj, k), k)))

Platform_update(obj) == obj

Keys == [space : BOOLEAN, left : BOOLEAN, right : BOOLEAN]
NoKeys == [space |-> FALSE, left |-> FALSE, right |-> FALSE]

----------------------------------------------------------------------------
(* class PhysicsEngine, as functions of the objects list *)

\* variant: the body is inserted at the front
RegisterAtFront(objs, obj) == <<obj>> \o objs

register_obj(objs, obj) == Append(objs, obj)

obj_update(obj, k) ==
    IF obj.kind = "Player" THEN Player_update(obj, k) ELSE Platform_update(obj)

update_objects(objs, k) == [n \in 1..Len(objs) |-> obj_update(objs[n], k)]

\* [obj for obj in self.objects if Tag.DYNAMIC in obj.tags], as indices
dyn_objs(objs) ==
    SelectSeq([n \in 1..Len(objs) |-> n], LAMBDA n : "DYNAMIC" \in objs[n].tags)

\* body of the inner loop: one comparison of the dynamic body at index di
\* with the body at index n (collide_one below)

\* variant: the other body is pushed away instead of the dynamic one
CollideOneMovesOther(objs, di, n) ==
    IF objs[n].id = objs[di].id
    THEN objs
    ELSE LET offset == AABB_vector_compact(bounds(objs[di]), bounds(objs[n]))
         IN  [objs EXCEPT ![n] = move(@, -offset[1], -offset[2])]

\* variant: two DYNAMIC bodies share the push, half each
CollideOneSharesPush(objs, di, n) ==
    IF objs[n].id = objs[di].id
    THEN objs
    ELSE LET offset == AABB_vector_compact(bounds(objs[di]), bounds(objs[n]))
             hx == offset[1] \div 2
             hy == offset[2] \div 2
         IN  IF "DYNAMIC" \in objs[n].tags
             THEN [objs EXCEPT ![di] = move(@, offset[1] - hx, offset[2] - hy),
                               ![n] = move(@, -hx, -hy)]
             ELSE [objs EXCEPT ![di] = move(@, offset[1], offset[2])]

\* variant: every comparison of a pass uses the bounds the dynamic body had
\* when the pass started
CollideOneStale(objs, di, n) ==
    IF objs[n].id = objs[di].id
    THEN objs
    ELSE LET offset == AABB_vector_compact(bounds(passStart[di]), bounds(objs[n]))
         IN  [objs EXCEPT ![di] = move(@, offset[1], offset[2])]

collide_one(objs, di, n) ==
    IF objs[n].id = objs[di].id
    THEN objs
    ELSE LET offset == AABB_vector_compact(bounds(objs[di]), bounds(objs[n]))
         IN  [objs EXCEPT ![di] = move(@, offset[1], offset[2])]

RECURSIVE collide_from(_, _, _)
collide_from(objs, di, n) ==
    IF n > Len(objs) THEN objs
    ELSE collide_from(collide_one(objs, di, n), di, n + 1)

RECURSIVE collide_dyns(_, _, _)
collide_dyns(objs, dyns, m) ==
    IF m > Len(dyns) THEN objs
    ELSE collide_dyns(collide_from(objs, dyns[m], 1), dyns, m + 1)

_collision_update(objs) == collide_dyns(objs, dyn_objs(objs), 1)

update(objs, k) == _collision_update(update_objects(objs, k))

----------------------------------------------------------------------------
(* The main program, step by step.  Small worlds: the bodies are built     *)
(* (ids in construction order, itertools.count), registered in any order,  *)
(* and the loop runs frames with every combination of pressed keys.        *)

World1 == {<<Player(0, px, py, 6, 5), Platform(1, 0, 10, 20, 5)>> :
               px \in {-4, 7}, py \in {3, 8}}
World2 == {<<Player(0, 3, 2, 6, 5), Platform(1, 0, 0, 5, 20), Platform(2, 8, 0, 5, 20)>>}
World3 == {<<Player(0, 0, 0, 6, 5), Player(1, q[1], q[2], 6, 5)>> :
               q \in {<<3, 1>>, <<-2, 4>>, <<3, 3>>}}
Worlds == World1 \cup World2 \cup World3

Range(s) == {s[n] : n \in DOMAIN s}

NoBounds == <<<<0, 0>>, <<0, 0>>>>
NoOut == [colliding |-> FALSE, swapped |-> FALSE, compact |-> <<0, 0>>,
          vector |-> <<0, 0>>, cand |-> <<0, 0>>, moved |-> NoBounds,
          again |-> <<0, 0>>, touching |-> FALSE]

InitEngine ==
    /\ objects = <<>>
    /\ i = 0 /\ d = 0 /\ j = 0
    /\ keys = NoKeys
    /\ run = TRUE
    /\ frames = 0
    /\ registered = <<>>
    /\ log = <<>>
    /\ frameStart = <<>>
    /\ passStart = <<>>

Init ==
    /\ InitEngine
    /\ pc = "setup"
    /\ pool \in {Range(w) : w \in Worlds}
    /\ bounds1 = NoBounds /\ bounds2 = NoBounds /\ out = NoOut

\* physics.register_obj(...), once per constructed body
RegisterObj ==
    /\ pc = "setup"
    /\ \E obj \in pool :
        /\ objects' = register_obj(objects, obj)
        /\ pool' = pool \ {obj}
        /\ registered' = Append(registered, obj.id)
    /\ UNCHANGED <<pc, i, d, j, keys, run, frames, log, frameStart, passStart>>
    /\ UNCHANGED aabbVars

EnterLoop ==
    /\ pc = "setup" /\ pool = {}
    /\ pc' = "loop"
    /\ UNCHANGED <<registered, objects, pool, i, d, j, keys, run, frames, log, frameStart, passStart>>
    /\ UNCHANGED aabbVars

\* while run: delay, poll the events (QUIT clears run), then physics.update()
\* starts.  The window is closed at the latest in frame MaxFrames.
LoopIteration ==
    /\ pc = "loop" /\ run
    /\ \E quit \in (IF frames + 1 >= MaxFrames THEN {TRUE} ELSE BOOLEAN) :
        run' = ~quit
    /\ keys' \in Keys
    /\ pc' = "update" /\ i' = 1
    /\ log' = <<>>
    /\ frameStart' = objects
    /\ UNCHANGED <<registered, objects, pool, d, j, frames, passStart>>
    /\ UNCHANGED aabbVars

LoopExit ==
    /\ pc = "loop" /\ ~run
    /\ pc' = "done"
    /\ UNCHANGED <<registered, objects, pool, i, d, j, keys, run, frames, log, frameStart, passStart>>
    /\ UNCHANGED aabbVars

\* for obj in self.objects: obj.update()   -- Platform.update
UpdatePlatform ==
    /\ pc = "update" /\ i <= Len(objects) /\ objects[i].kind = "Platform"
    /\ objects' = [objects EXCEPT ![i] = Platform_update(@)]
    /\ log' = Append(log, <<"update", objects[i].id>>)
    /\ i' = i + 1
    /\ UNCHANGED <<registered, pool, pc, d, j, keys, run, frames, frameStart, passStart>>
    /\ UNCHANGED aabbVars

\* Player.update, lines 153-155
UpdatePlayerJump ==
    /\ pc = "update" /\ i <= Len(objects) /\ objects[i].kind = "Player"
    /\ objects' = [objects EXCEPT ![i] = Player_jump(@, keys)]
    /\ log' = Append(log, <<"update", objects[i].id>>)
    /\ pc' = "player_horizontal"
    /\ UNCHANGED <<registered, pool, i, d, j, keys, run, frames, frameStart, passStart>>
    /\ UNCHANGED aabbVars

\* Player.update, lines 156-159
UpdatePlayerHorizontal ==
    /\ pc = "player_horizontal"
    /\ objects' = [objects EXCEPT ![i] = Player_horizontal(@, keys)]
    /\ pc' = "player_gravity"
    /\ UNCHANGED <<registered, pool, i, d, j, keys, run, frames, log, frameStart, passStart>>
    /\ UNCHANGED aabbVars

\* Player.update, lines 161-167
UpdatePlayerGravity ==
    /\ pc = "player_gravity"
    /\ objects' = [objects EXCEPT ![i] = Player_gravity(@)]
    /\ pc' = "player_integrate"
    /\ UNCHANGED <<registered, pool, i, d, j, keys, run, frames, log, frameStart, passStart>>
    /\ UNCHANGED aabbVars

\* Player.update, lines 169-170
UpdatePlayerIntegrate ==
    /\ pc = "player_integrate"
    /\ objects' = [objects EXCEPT ![i] = Player_integrate(@)]
    /\ pc' = "update" /\ i' = i + 1
    /\ UNCHANGED <<registered, pool, d, j, keys, run, frames, log, frameStart, passStart>>
    /\ UNCHANGED aabbVars

\* end of the loop of update(): self._collision_update() starts
UpdateDone ==
    /\ pc = "update" /\ i > Len(objects)
    /\ pc' = "collide" /\ d' = 1 /\ j' = 1
    /\ passStart' = objects
    /\ UNCHANGED <<registered, objects, pool, i, keys, run, frames, log, frameStart>>
    /\ UNCHANGED aabbVars

\* inner loop of _collision_update: one body obj against dyn_obj
CollideStep ==
    /\ pc = "collide" /\ d <= Len(dyn_objs(objects)) /\ j <= Len(objects)
    /\ LET di == dyn_objs(objects)[d]
       IN  /\ objects' = collide_one(objects, di, j)
           /\ log' = IF objects[j].id = objects[di].id THEN log
                     ELSE Append(log, <<"move", objects[di].id, objects[j].id,
                                        bounds(objects[di]),
                                        <<objects'[di].x - objects[di].x,
                                          objects'[di].y - objects[di].y>>>>)
    /\ j' = j + 1
    /\ UNCHANGED <<registered, pool, pc, i, d, keys, run, frames, frameStart, passStart>>
    /\ UNCHANGED aabbVars

\* the inner loop ends: next dynamic body
CollideNextDyn ==
    /\ pc = "collide" /\ d <= Len(dyn_objs(objects)) /\ j > Len(objects)
    /\ d' = d + 1 /\ j' = 1
    /\ UNCHANGED <<registered, objects, pool, pc, i, keys, run, frames, log, frameStart, passStart>>
    /\ UNCHANGED aabbVars

\* the outer loop ends: update() returns and physics.draw(display) starts
CollideDone ==
    /\ pc = "collide" /\ d > Len(dyn_objs(objects))
    /\ pc' = "draw" /\ i' = 1
    /\ UNCHANGED <<registered, objects, pool, d, j, keys, run, frames, log, frameStart, passStart>>
    /\ UNCHANGED aabbVars

\* for obj in self.objects: obj.draw(display)
DrawObj ==
    /\ pc = "draw" /\ i <= Len(objects)
    /\ log' = Append(log, <<"draw", objects[i].id>>)
    /\ i' = i + 1
    /\ UNCHANGED <<registered, objects, pool, pc, d, j, keys, run, frames, frameStart, passStart>>
    /\ UNCHANGED aabbVars

\* draw() returns: pygame.display.update(), end of the frame
DrawDone ==
    /\ pc = "draw" /\ i > Len(objects)
    /\ pc' = "loop"
    /\ frames' = frames + 1
    /\ UNCHANGED <<registered, objects, pool, i, d, j, keys, run, log, frameStart, passStart>>
    /\ UNCHANGED aabbVars

Next ==
    \/ RegisterObj
    \/ EnterLoop
    \/ LoopIteration
    \/ LoopExit
    \/ UpdatePlatform
    \/ UpdatePlayerJump
    \/ UpdatePlayerHorizontal
    \/ UpdatePlayerGravity
    \/ UpdatePlayerIntegrate
    \/ UpdateDone
    \/ CollideStep
    \/ CollideNextDyn
    \/ CollideDone
    \/ DrawObj
    \/ DrawDone

Spec == Init /\ [][Next]_vars

----------------------------------------------------------------------------
(* The program's own setup (lines 182-192) *)

MainObjects ==
    <<Player(0, 50, 380, 40, 60),
      Platform(1, 5, 490, 490, 5),
      Platform(2, 5, 5, 490, 5),
      Platform(3, 5, 10, 5, 480),
      Platform(4, 490, 10, 5, 480),
      Platform(5, 180, 225, 140, 50)>>

----------------------------------------------------------------------------
(* The AABB functions called directly, on every pair of bounds with        *)
(* coordinates in 0..MaxCoord and on the pairs the specification quotes.   *)

Intervals == {<<lo, hi>> : lo \in 0..MaxCoord, hi \in 0..MaxCoord} \cap
             {iv \in (0..MaxCoord) \X (0..MaxCoord) : iv[1] <= iv[2]}
GridBounds == Intervals \X Intervals

QuotedPairs ==
    { <<<< <<0, 10>>, <<0, 10>> >>, << <<5, 15>>, <<0, 10>> >>>>,
      <<<< <<0, 10>>, <<0, 10>> >>, << <<5, 15>>, <<5, 15>> >>>>,
      <<<< <<0, 1>>, <<0, 1>> >>, << <<5, 6>>, <<5, 6>> >>>>,
      <<<< <<0, 1>>, <<0, 1>> >>, << <<1, 2>>, <<0, 1>> >>>> }

InitAABB ==
    /\ InitEngine /\ pool = {}
    /\ pc = "call_is_colliding"
    /\ \E pair \in (GridBounds \X GridBounds) \cup QuotedPairs :
        bounds1 = pair[1] /\ bounds2 = pair[2]
    /\ out = NoOut

\* a body whose bounds() is b
body_of(b) ==
    PhysicsObject(0, b[1][1], b[2][1], b[1][2] - b[1][1], b[2][2] - b[2][1], {"DYNAMIC"})

\* AABB_is_colliding(bounds1, bounds2) and AABB_is_colliding(bounds2, bounds1)
CallIsColliding ==
    /\ pc = "call_is_colliding"
    /\ pc' = "call_vector"
    /\ out' = [out EXCEPT !.colliding = AABB_is_colliding(bounds1, bounds2),
                          !.swapped = AABB_is_colliding(bounds2, bounds1)]
    /\ UNCHANGED <<bounds1, bounds2>>
    /\ UNCHANGED <<registered, objects, pool, i, d, j, keys, run, frames, log, frameStart, passStart>>

\* AABB_vector_compact(bounds1, bounds2), AABB_vector(bounds1, bounds2) and
\* _AABB_vector_1d on each axis
CallVector ==
    /\ pc = "call_vector"
    /\ pc' = "call_move"
    /\ out' = [out EXCEPT !.compact = AABB_vector_compact(bounds1, bounds2),
                          !.vector = AABB_vector(bounds1, bounds2),
                          !.cand = <<_AABB_vector_1d(bounds1[1], bounds2[1]),
                                     _AABB_vector_1d(bounds1[2], bounds2[2])>>]
    /\ UNCHANGED <<bounds1, bounds2>>
    /\ UNCHANGED <<registered, objects, pool, i, d, j, keys, run, frames, log, frameStart, passStart>>

\* lines 121-122 on a body with bounds1: move(*offset), then compare again
CallMove ==
    /\ pc = "call_move"
    /\ pc' = "called"
    /\ LET obj == move(body_of(bounds1), out.compact[1], out.compact[2])
       IN  out' = [out EXCEPT !.moved = bounds(obj),
                              !.again = AABB_vector_compact(bounds(obj), bounds2),
                              !.touching = AABB_is_colliding(bounds(obj), bounds2)]
    /\ UNCHANGED <<bounds1, bounds2>>
    /\ UNCHANGED <<registered, objects, pool, i, d, j, keys, run, frames, log, frameStart, passStart>>

NextAABB == CallIsColliding \/ CallVector \/ CallMove

SpecAABB == InitAABB /\ [][NextAABB]_vars

----------------------------------------------------------------------------
(* Properties of the AABB functions (checked under SpecAABB) *)

Ex_a == << <<0, 10>>, <<0, 10>> >>
Ex_bx == << <<5, 15>>, <<0, 10>> >>
Ex_bxy == << <<5, 15>>, <<5, 15>> >>
Ex_unit == << <<0, 1>>, <<0, 1>> >>
Ex_far == << <<5, 6>>, <<5, 6>> >>
Ex_touch == << <<1, 2>>, <<0, 1>> >>

\* the closed-interval overlap test, written out on the four coordinates
ClosedOverlap(b1, b2) ==
    /\ b1[1][1] <= b2[1][2] /\ b2[1][1] <= b1[1][2]
    /\ b1[2][1] <= b2[2][2] /\ b2[2][1] <= b1[2][2]

\* the rectangles share an interior point (positive-area penetration)
InteriorOverlap(b1, b2) ==
    /\ b1[1][1] < b2[1][2] /\ b2[1][1] < b1[1][2]
    /\ b1[2][1] < b2[2][2] /\ b2[2][1] < b1[2][2]

\* closest-edge rule on one axis: the push to the low side or the push to
\* the high side of x2, whichever is shorter, the high side on a tie
ClosestEdgePush(x1, x2) ==
    LET low == x2[1] - x1[2]
        high == x2[2] - x1[1]
    IN  IF abs(low) < abs(high) THEN low ELSE high

VectorCalled == pc \in {"call_move", "called"}
CollidingCalled == pc \in {"call_vector", "call_move", "called"}

\* C3: for a colliding pair with per-axis candidate pushes (cx, cy), the
\* separation vector is (cx, 0) when |cx| < |cy| and (0, cy) otherwise (a
\* tie keeps dy), it never has two non-zero components, and the two quoted
\* pairs give (-5, 0) and (0, -5).
C3_AxisChoice ==
    VectorCalled =>
        /\ ClosedOverlap(bounds1, bounds2) =>
              LET cx == ClosestEdgePush(bounds1[1], bounds2[1])
                  cy == ClosestEdgePush(bounds1[2], bounds2[2])
              IN  out.compact = IF abs(cx) < abs(cy) THEN <<cx, 0>> ELSE <<0, cy>>
        /\ out.compact[1] = 0 \/ out.compact[2] = 0
        /\ (bounds1 = Ex_a /\ bounds2 = Ex_bx) => out.compact = <<-5, 0>>
        /\ (bounds1 = Ex_a /\ bounds2 = Ex_bxy) => out.compact = <<0, -5>>

\* a colliding pair whose candidates tie with a non-zero magnitude has been resolved
C3_Witness ==
    /\ VectorCalled
    /\ bounds1 = Ex_a /\ bounds2 = Ex_bxy
    /\ abs(ClosestEdgePush(bounds1[1], bounds2[1])) = abs(ClosestEdgePush(bounds1[2], bounds2[2]))
    /\ out.compact = <<0, -5>>

\* C6: AABB_is_colliding(a, b) = AABB_is_colliding(b, a) for all bounds a, b.
C6_Symmetric ==
    CollidingCalled => out.colliding = out.swapped

\* both orders have been evaluated on a pair that only touches
C6_Witness ==
    /\ CollidingCalled
    /\ bounds1[1][2] = bounds2[1][1] /\ bounds1 # bounds2
    /\ out.colliding /\ out.swapped

\* C7: AABB_is_colliding(b1, b2) is true exactly when both axes overlap as
\* closed intervals, so rectangles that only touch count as colliding; the
\* quoted pair ((0,1),(0,1)), ((1,2),(0,1)) collides.
C7_ClosedIntervals ==
    CollidingCalled =>
        /\ out.colliding = ClosedOverlap(bounds1, bounds2)
        /\ (bounds1 = Ex_unit /\ bounds2 = Ex_touch) => out.colliding

\* the quoted touching pair has been tested: it collides without interior overlap
C7_Witness ==
    /\ CollidingCalled
    /\ bounds1 = Ex_unit /\ bounds2 = Ex_touch
    /\ out.colliding /\ ~InteriorOverlap(bounds1, bounds2)

\* the closed intervals are disjoint on at least one axis
Disjoint(b1, b2) ==
    \/ b1[1][2] < b2[1][1] \/ b2[1][2] < b1[1][1]
    \/ b1[2][2] < b2[2][1] \/ b2[2][2] < b1[2][1]

\* C8: for every pair of bounds that does not collide, both separation
\* vectors are (0, 0) and moving the body by the vector leaves it in place.
C8_NoCollisionNoPush ==
    Disjoint(bounds1, bounds2) =>
        /\ VectorCalled => out.compact = <<0, 0>> /\ out.vector = <<0, 0>>
        /\ pc = "called" => out.moved = bounds1

\* the quoted far-apart pair went through the comparison and the move
C8_Witness ==
    /\ pc = "called"
    /\ bounds1 = Ex_unit /\ bounds2 = Ex_far
    /\ Disjoint(bounds1, bounds2)
    /\ out.compact = <<0, 0>> /\ out.moved = bounds1

----------------------------------------------------------------------------
(* Properties of the engine and of the player (checked under Spec) *)

DynIdx == {n \in 1..Len(objects) : "DYNAMIC" \in objects[n].tags}
StaticIdx == {n \in 1..Len(objects) : "STATIC" \in objects[n].tags}
IdxOf(id) == CHOOSE n \in 1..Len(objects) : objects[n].id = id
Translate(b, v) == <<<<b[1][1] + v[1], b[1][2] + v[1]>>, <<b[2][1] + v[2], b[2][2] + v[2]>>>>

\* the collision pass of the current frame has ended
AfterPass == pc = "draw"

\* at the start of the pass the body at dn overlapped (closed test) the
\* static body at s and no other static body
OverlapsExactlyOne(dn, s) ==
    /\ ClosedOverlap(bounds(passStart[dn]), bounds(passStart[s]))
    /\ \A t \in StaticIdx \ {s} :
          ~ClosedOverlap(bounds(passStart[dn]), bounds(passStart[t]))

\* during the pass no body other than the one at s moved the body at dn
NoOtherPush(dn, s) ==
    \A k \in 1..Len(log) :
        (log[k][1] = "move" /\ log[k][2] = objects[dn].id /\ log[k][3] # objects[s].id)
            => log[k][5] = <<0, 0>>

\* C1 as stated: after an update() in which a DYNAMIC body overlapped
\* exactly one static body, the closed-interval test finds them apart.
C1_AsStated ==
    AfterPass =>
        \A dn \in DynIdx : \A s \in StaticIdx :
            OverlapsExactlyOne(dn, s) =>
                ~ClosedOverlap(bounds(objects[dn]), bounds(objects[s]))

\* C1 (amended): after an update() in which a DYNAMIC body overlapped
\* exactly one static body when the collision pass started, and no other
\* body moved it during the pass, the two rectangles share no interior
\* point (they are left touching).
C1_NoInteriorOverlap ==
    AfterPass =>
        \A dn \in DynIdx : \A s \in StaticIdx :
            (OverlapsExactlyOne(dn, s) /\ NoOtherPush(dn, s)) =>
                ~InteriorOverlap(bounds(objects[dn]), bounds(objects[s]))

\* a player that penetrated its only obstacle has been pushed out and touches it
C1_Witness ==
    /\ AfterPass
    /\ \E dn \in DynIdx : \E s \in StaticIdx :
        /\ OverlapsExactlyOne(dn, s) /\ NoOtherPush(dn, s)
        /\ InteriorOverlap(bounds(passStart[dn]), bounds(passStart[s]))
        /\ objects[dn] # passStart[dn]
        /\ ClosedOverlap(bounds(objects[dn]), bounds(objects[s]))
        /\ ~InteriorOverlap(bounds(objects[dn]), bounds(objects[s]))

MoveEventsOf(id) == SelectSeq(log, LAMBDA e : e[1] = "move" /\ e[2] = id)

\* the player of World2 stands across the gap between the two platforms
AcrossGap(dn) ==
    /\ Len(objects) = 3 /\ Cardinality(StaticIdx) = 2
    /\ bounds(passStart[dn]) = << <<3, 9>>, <<5, 10>> >>
    /\ \A s \in StaticIdx : InteriorOverlap(bounds(passStart[dn]), bounds(passStart[s]))

\* C4: a DYNAMIC body that overlaps two static bodies when the pass starts
\* (the player across the gap of World2) still penetrates one of them after
\* the pass, which compared it once with each other body and no more.
C4_SingleSweepLeavesOverlap ==
    AfterPass =>
        \A dn \in DynIdx :
            /\ Len(MoveEventsOf(objects[dn].id)) = Len(objects) - 1
            /\ AcrossGap(dn) =>
                  \E s \in StaticIdx :
                      InteriorOverlap(bounds(objects[dn]), bounds(objects[s]))

\* the pass has ended with the player still inside the platform compared first
C4_Witness ==
    /\ AfterPass
    /\ \E dn \in DynIdx :
        /\ AcrossGap(dn)
        /\ \E s \in StaticIdx :
            /\ \A t \in StaticIdx : s <= t
            /\ InteriorOverlap(bounds(objects[dn]), bounds(objects[s]))

InTick == pc \in {"update", "player_horizontal", "player_gravity", "player_integrate"}

\* the tick of the player at n started with vy = 0 and the jump key down
JumpTick(n) ==
    /\ InTick /\ n \in 1..Len(objects)
    /\ objects[n].kind = "Player"
    /\ frameStart[n].velocity[2] = 0
    /\ keys.space

\* C5: in a Player tick that starts with vy = 0 and has the jump input
\* active, vy is 30 after the jump step, gravity then takes 3, and the tick
\* ends with vy = 27 and y decreased by 27.
C5_JumpBeforeGravity ==
    \A n \in 1..Len(objects) :
        JumpTick(n) =>
            /\ (pc \in {"player_horizontal", "player_gravity"} /\ i = n) =>
                  (objects[n].velocity[2] = 30 /\ objects[n].y = frameStart[n].y)
            /\ (pc = "player_integrate" /\ i = n) =>
                  (objects[n].velocity[2] = 27 /\ objects[n].y = frameStart[n].y)
            /\ (pc = "update" /\ i > n) =>
                  (objects[n].velocity[2] = 27 /\ objects[n].y = frameStart[n].y - 27)

\* a jump tick has ended
C5_Witness ==
    \E n \in 1..Len(objects) :
        /\ JumpTick(n)
        /\ pc = "update" /\ i > n
        /\ objects[n].velocity[2] = 27

DrawEvents == SelectSeq(log, LAMBDA e : e[1] = "draw")

\* draw() of the current frame has returned
DrawnAll ==
    \/ pc = "draw" /\ i > Len(objects)
    \/ pc \in {"loop", "done"} /\ frames > 0

\* C9: draw() calls draw on every registered body exactly once, in
\* registration order.
C9_DrawOrder ==
    /\ pc = "draw" => DrawEvents = [n \in 1..(i - 1) |-> <<"draw", registered[n]>>]
    /\ DrawnAll => DrawEvents = [n \in 1..Len(registered) |-> <<"draw", registered[n]>>]

\* three bodies registered in another order than they were built, all drawn
C9_Witness ==
    /\ DrawnAll
    /\ Len(registered) = 3 /\ registered[1] > registered[2]
    /\ Len(DrawEvents) = 3

\* the ids of the DYNAMIC bodies, and of the bodies other than id, in
\* registration order
DynIds == SelectSeq(registered, LAMBDA id : "DYNAMIC" \in objects[IdxOf(id)].tags)
OthersOf(id) == SelectSeq(registered, LAMBDA o : o # id)

RECURSIVE PairsFrom(_)
PairsFrom(dyns) ==
    IF dyns = <<>> THEN <<>>
    ELSE [n \in 1..Len(OthersOf(Head(dyns))) |-> <<Head(dyns), OthersOf(Head(dyns))[n]>>]
         \o PairsFrom(Tail(dyns))

ExpectedPairs == PairsFrom(DynIds)

\* the bounds of the body `other` as a comparison made during the turn of
\* the body `dyn` finds them: a body moves only during its own turn
BoundsDuringTurn(dyn, other) ==
    IF IdxOf(other) < IdxOf(dyn)
    THEN bounds(objects[IdxOf(other)])
    ELSE bounds(passStart[IdxOf(other)])

\* C10: within one update() every body's tick runs, in registration order,
\* before any collision step; the pass visits each DYNAMIC body in
\* registration order and for each every other body in registration order,
\* and each comparison sees the dynamic body where the previous moves of
\* the same pass have put it.
C10_UpdateOrder ==
    (pc = "draw" /\ i = 1) =>
        LET nreg == Len(registered)
        IN  /\ Len(log) = nreg + Len(ExpectedPairs)
            /\ \A n \in 1..nreg : log[n] = <<"update", registered[n]>>
            /\ \A m \in 1..Len(ExpectedPairs) :
                  LET e == log[nreg + m]
                      pair == ExpectedPairs[m]
                      first == m = 1 \/ ExpectedPairs[m - 1][1] # pair[1]
                      last == m = Len(ExpectedPairs) \/ ExpectedPairs[m + 1][1] # pair[1]
                  IN  /\ e[1] = "move" /\ e[2] = pair[1] /\ e[3] = pair[2]
                      /\ e[4] = IF first THEN bounds(passStart[IdxOf(pair[1])])
                                ELSE Translate(log[nreg + m - 1][4], log[nreg + m - 1][5])
                      /\ e[5] = AABB_vector_compact(e[4], BoundsDuringTurn(pair[1], pair[2]))
                      /\ last => bounds(objects[IdxOf(pair[1])]) = Translate(e[4], e[5])

\* a pass in which the second comparison saw the body moved by the first
C10_Witness ==
    /\ pc = "draw" /\ i = 1
    /\ \E m \in 2..Len(log) :
        /\ log[m][1] = "move" /\ log[m - 1][1] = "move"
        /\ log[m][2] = log[m - 1][2]
        /\ log[m - 1][5] # <<0, 0>> /\ log[m][5] # <<0, 0>>

----------------------------------------------------------------------------
(* Further properties of the AABB functions (checked under SpecAABB) *)

LowPush(x1, x2) == x2[1] - x1[2]
HighPush(x1, x2) == x2[2] - x1[1]

\* c is the shorter of the two pushes of x1 out of x2, the high one on a tie
IsClosestEdge(c, x1, x2) ==
    /\ c \in {LowPush(x1, x2), HighPush(x1, x2)}
    /\ abs(c) <= abs(LowPush(x1, x2)) /\ abs(c) <= abs(HighPush(x1, x2))
    /\ abs(LowPush(x1, x2)) = abs(HighPush(x1, x2)) => c = HighPush(x1, x2)

\* C15: for every colliding pair the per-axis candidate push is the one of
\* b2.min - b1.max and b2.max - b1.min with the smaller absolute value, the
\* high-side push b2.max - b1.min when both are equally long; this holds of
\* _AABB_vector_1d and of the component AABB_vector_compact keeps.
C15_ClosestEdge ==
    (VectorCalled /\ ClosedOverlap(bounds1, bounds2)) =>
        /\ IsClosestEdge(out.cand[1], bounds1[1], bounds2[1])
        /\ IsClosestEdge(out.cand[2], bounds1[2], bounds2[2])
        /\ out.compact \in {<<out.cand[1], 0>>, <<0, out.cand[2]>>}

\* a colliding pair whose two x pushes are equally long and not zero
C15_Witness ==
    /\ VectorCalled /\ ClosedOverlap(bounds1, bounds2)
    /\ abs(LowPush(bounds1[1], bounds2[1])) = abs(HighPush(bounds1[1], bounds2[1]))
    /\ out.cand[1] = HighPush(bounds1[1], bounds2[1]) /\ out.cand[1] > 0

PositiveSize(b) == b[1][1] < b[1][2] /\ b[2][1] < b[2][2]

\* C17: for all bounds of positive width and height, after b1 is moved by
\* AABB_vector_compact(b1, b2) the rectangles share no interior point and
\* the vector of the moved b1 against b2 is (0, 0); a pair that collided is
\* left in contact, AABB_is_colliding still true.
C17_Idempotent ==
    (pc = "called" /\ PositiveSize(bounds1) /\ PositiveSize(bounds2)) =>
        /\ ~InteriorOverlap(out.moved, bounds2)
        /\ out.again = <<0, 0>>
        /\ out.colliding => (out.touching /\ ClosedOverlap(out.moved, bounds2))

\* a pair with positive-area overlap was separated and is left touching
C17_Witness ==
    /\ pc = "called" /\ PositiveSize(bounds1) /\ PositiveSize(bounds2)
    /\ InteriorOverlap(bounds1, bounds2)
    /\ out.moved # bounds1
    /\ out.again = <<0, 0>> /\ out.touching

\* C20: AABB_vector(b1, b2) and AABB_vector_compact(b1, b2) return the same
\* (dx, dy) for all bounds, colliding or not.
C20_SameVector ==
    VectorCalled => out.vector = out.compact

\* both were called on a colliding pair and on it returned a non-zero vector
C20_Witness ==
    /\ VectorCalled
    /\ out.colliding
    /\ out.vector # <<0, 0>> /\ out.vector = out.compact

----------------------------------------------------------------------------
(* Further properties of the engine (checked under Spec) *)

ConstructedBodies == UNION {Range(w) : w \in Worlds}

\* everything of a body but its position
Unplaced(obj) == [obj EXCEPT !.x = 0, !.y = 0]

\* C11: no update() changes the position of a body without the DYNAMIC tag
\* (a platform stays as it was constructed through every frame), and the
\* collision pass changes only positions, of DYNAMIC bodies: never a
\* velocity.
C11_OnlyDynamicPositions ==
    /\ \A n \in 1..Len(objects) :
          "DYNAMIC" \notin objects[n].tags => objects[n] \in ConstructedBodies
    /\ pc \in {"collide", "draw"} =>
          \A n \in 1..Len(objects) :
              /\ Unplaced(objects[n]) = Unplaced(passStart[n])
              /\ "DYNAMIC" \notin objects[n].tags => objects[n] = passStart[n]

\* in a later frame a moving player was pushed out of a platform it had entered
C11_Witness ==
    /\ AfterPass /\ frames >= 1
    /\ \E dn \in DynIdx : \E s \in StaticIdx :
        /\ InteriorOverlap(bounds(passStart[dn]), bounds(passStart[s]))
        /\ objects[dn] # passStart[dn]
        /\ objects[dn].velocity[1] # 0 /\ objects[dn].velocity[2] # 0
        /\ objects[s] \in ConstructedBodies

\* the world consists of exactly two bodies, both DYNAMIC
TwoDynamic == Len(objects) = 2 /\ DynIdx = {1, 2}

\* C16: in a world of exactly two DYNAMIC bodies that overlap when the pass
\* starts, the pass moves only the earlier-registered body: it is pushed
\* out of the later one, the later body's comparison yields (0, 0) and the
\* later body is where it was.
C16_OnlyEarlierMoves ==
    (AfterPass /\ TwoDynamic
        /\ ClosedOverlap(bounds(passStart[1]), bounds(passStart[2]))) =>
        /\ objects[2] = passStart[2]
        /\ MoveEventsOf(objects[2].id) =
              << <<"move", objects[2].id, objects[1].id, bounds(passStart[2]), <<0, 0>> >> >>
        /\ ~InteriorOverlap(bounds(objects[1]), bounds(objects[2]))
        /\ InteriorOverlap(bounds(passStart[1]), bounds(passStart[2])) =>
              /\ objects[1] # passStart[1]
              /\ ClosedOverlap(bounds(objects[1]), bounds(objects[2]))

\* two players that penetrated each other: the earlier one moved, the later did not
C16_Witness ==
    /\ AfterPass /\ TwoDynamic
    /\ InteriorOverlap(bounds(passStart[1]), bounds(passStart[2]))
    /\ objects[1] # passStart[1]
    /\ objects[2] = passStart[2]

----------------------------------------------------------------------------
(* The running game, one action per iteration of the main loop.  The draw
   changes no state, so an iteration is the key poll followed by
   physics.update().  *)

\* the main loop runs with the bodies objs; k are the keys polled last
Running(objs, k) ==
    /\ objects = objs
    /\ pool = {}
    /\ registered = [n \in 1..Len(objs) |-> objs[n].id]
    /\ pc = "loop"
    /\ i = 0 /\ d = 0 /\ j = 0
    /\ keys = k
    /\ run = TRUE
    /\ frames = 0
    /\ log = <<>>
    /\ frameStart = objs
    /\ passStart = objs
    /\ bounds1 = NoBounds /\ bounds2 = NoBounds /\ out = NoOut

\* the state when the main loop is entered with the bodies objs registered
Started(objs) == Running(objs, NoKeys)

\* one iteration with the pressed keys k
Frame(k) ==
    /\ pc = "loop" /\ run
    /\ keys' = k
    /\ objects' = update(objects, k)
    /\ UNCHANGED <<registered, pool, pc, i, d, j, run, log, frameStart, passStart>>
    /\ UNCHANGED aabbVars

\* the first registered body is the player, as in the program's setup
player == objects[1]

\* an arena built like the program's (player, then floor, ceiling, left and
\* right wall, the walls 5 thick), with less room inside
BoxObjects ==
    <<Player(0, 15, 20, 40, 60),
      Platform(1, 5, 100, 60, 5),
      Platform(2, 5, 5, 60, 5),
      Platform(3, 5, 10, 5, 90),
      Platform(4, 60, 10, 5, 90)>>

InitBox == Started(BoxObjects)

BoxFrame ==
    /\ \E k \in Keys : Frame(k)
    /\ UNCHANGED frames

NextBox == BoxFrame

SpecBox == InitBox /\ [][NextBox]_vars

\* the player's velocity components
vx == player.velocity[1]
vy == player.velocity[2]

\* the change of vx in a tick is one the left/right rules allow
HorizontalRules ==
    /\ vx' # vx => (vx' = vx - 3 \/ vx' = vx + 3)
    /\ vx' < vx => keys'.left /\ vx > -10
    /\ vx' > vx => keys'.right /\ vx < 10
    /\ (~keys'.left /\ ~keys'.right) => vx' = vx

\* C13 as stated: vx stays within [-10, 10]
C13_AsStated == -10 <= vx /\ vx <= 10

\* C13: vx changes only through the left/right input rules, and after any
\* sequence of ticks starting from vx = 0 it stays within [-12, 12]: the
\* guards let a step of 3 start from 9 or -9.
C13_HorizontalSpeed ==
    /\ [][HorizontalRules]_vars
    /\ [](-12 <= vx /\ vx <= 12)

\* the guard let the player speed up from 9 to 12 with "right" held
C13_Witness == vx = 12 /\ keys.right /\ ~keys.left

\* C19: after any sequence of ticks with arbitrary inputs, starting from
\* velocity (0, 0), vx is a multiple of 3 with -12 <= vx <= 12 and vy is a
\* multiple of 3 with -15 <= vy <= 27.
C19_VelocityLattice ==
    /\ vx \in {3 * n : n \in -4..4}
    /\ vy \in {3 * n : n \in -5..9}

\* a corner of the lattice is reached
C19_Witness == vx = -12 /\ vy = 27

----------------------------------------------------------------------------
(* Runs that never leave the main loop, in the steps of Spec.  The loop
   keeps iterating while the window is open and every call in it returns,
   hence the weak fairness of the steps.  *)

\* while run: delay, poll (no QUIT event); ks are the key states that may
\* be polled; physics.update() starts
Poll(ks) ==
    /\ pc = "loop" /\ run
    /\ keys' \in ks
    /\ pc' = "update" /\ i' = 1
    /\ log' = <<>>
    /\ frameStart' = objects
    /\ UNCHANGED <<registered, objects, pool, d, j, run, frames, passStart>>
    /\ UNCHANGED aabbVars

\* draw() returns: pygame.display.update(), back to the loop test
FrameDone ==
    /\ pc = "draw" /\ i > Len(objects)
    /\ pc' = "loop"
    /\ UNCHANGED <<registered, objects, pool, i, d, j, keys, run, frames, log, frameStart, passStart>>
    /\ UNCHANGED aabbVars

\* vy when the running tick started, and whether the tick has set vy
vyAtTickStart == frameStart[1].velocity[2]
TickDone == pc \in {"player_integrate", "collide", "draw"} \/ (pc = "update" /\ i > 1)

(* The small arena with the jump key never pressed.  The run starts when the
   loop is entered, or one iteration later with the jump key pressed in that
   first iteration, so that gravity also acts on a rising player.  *)

InitFall ==
    \/ Started(BoxObjects)
    \/ \E k \in Keys : k.space /\ Running(update(BoxObjects, k), k)

FallPoll == Poll({k \in Keys : ~k.space})

NextFall ==
    \/ FallPoll
    \/ UpdatePlatform
    \/ UpdatePlayerJump
    \/ UpdatePlayerHorizontal
    \/ UpdatePlayerGravity
    \/ UpdatePlayerIntegrate
    \/ UpdateDone
    \/ CollideStep
    \/ CollideNextDyn
    \/ CollideDone
    \/ DrawObj
    \/ FrameDone

SpecFall == InitFall /\ [][NextFall]_vars /\ WF_vars(NextFall)

\* C12: with the jump input inactive, gravity lowers vy by exactly 3 on
\* every tick on which vy > -15 and leaves it unchanged once vy <= -15;
\* with jump never pressed vy eventually equals -15 and stays -15.
C12_Gravity ==
    /\ [](TickDone =>
            vy = IF vyAtTickStart > -15 THEN vyAtTickStart - 3 ELSE vyAtTickStart)
    /\ <>[](vy = -15)

\* a tick that started at terminal velocity has left vy alone
C12_Witness ==
    /\ TickDone /\ ~keys.space
    /\ vyAtTickStart = -15 /\ vy = -15

(* The program's own setup with no key ever pressed.  *)

InitIdle == Started(MainObjects)

IdlePoll == Poll({NoKeys})

NextIdle ==
    \/ IdlePoll
    \/ UpdatePlatform
    \/ UpdatePlayerJump
    \/ UpdatePlayerHorizontal
    \/ UpdatePlayerGravity
    \/ UpdatePlayerIntegrate
    \/ UpdateDone
    \/ CollideStep
    \/ CollideNextDyn
    \/ CollideDone
    \/ DrawObj
    \/ FrameDone

SpecIdle == InitIdle /\ [][NextIdle]_vars /\ WF_vars(NextIdle)

\* the player stands on the floor: update() has ended with it at (50, 430),
\* put there by the floor's push of 15 upwards
AtRest ==
    /\ vx = 0 /\ vy = -15
    /\ player.x = 50
    /\ AfterPass =>
        /\ player.y = 430
        /\ player.y + player.height = objects[2].y
        /\ passStart[1].y = 445
        /\ MoveEventsOf(player.id)[1] =
              <<"move", player.id, objects[2].id, bounds(passStart[1]), <<0, -15>> >>

\* C18: from the program's own setup with no input ever pressed the player
\* falls and comes to rest on the floor: eventually every update() ends with
\* the player at x = 50, y = 430, its bottom edge on the floor's top edge,
\* while vy stays -15 and the floor pushes it back up by 15 in each tick.
C18_RestsOnFloor == <>[]AtRest

\* a tick that started at rest has ended at rest
C18_Witness ==
    /\ AfterPass /\ AtRest
    /\ frameStart[1].y = 430 /\ frameStart[1].velocity = <<0, -15>>
    /\ keys = NoKeys

----------------------------------------------------------------------------
(* The program's own arena with the jump key held in every iteration.
   frames counts the iterations modulo 10, the length of the jump cycle. *)

InitJumpHeld == Started(MainObjects)

JumpHeldFrame ==
    /\ \E k \in Keys : k.space /\ Frame(k)
    /\ frames' = (frames + 1) % 10

NextJumpHeld == JumpHeldFrame

SpecJumpHeld == InitJumpHeld /\ [][NextJumpHeld]_vars

\* the tick does what it would do with the jump key released
JumpIgnored == objects' = update(objects, [keys' EXCEPT !.space = FALSE])

\* C14: with the jump input held on every tick from vy = 0, the impulse is
\* applied again whenever vy has returned to 0, which is every 10th tick, the
\* end-of-tick vy cycles 27, 24, ..., 3, 0 and is never negative, and on a
\* tick that starts with vy >= 0.1 the jump input has no effect.
C14_HeldJumpCycle ==
    /\ [](vy = IF frames = 0 THEN 0 ELSE 30 - 3 * frames)
    /\ [][(vy = 0 => vy' = 27) /\ (vy * 10 >= 1 => JumpIgnored)]_vars

\* the impulse was applied again far above the floor
C14_Witness ==
    /\ vy = 27 /\ keys.space
    /\ player.y + player.height < 490 - 100

====
